---- MODULE Spec2Model ----
(***************************************************************************)
(* A model of the ollama-tools assistant: the tool-call protocol of        *)
(* src/ol.py (process_tool_calls) with the dispatcher of src/tools.py      *)
(* (execute_tool), and the exchange of src/ol.py (ollama_chat) with the    *)
(* vector memory of src/db_utils.py (retrieve_context, add_to_vector_db).  *)
(*                                                                         *)
(* A text is a sequence of tokens.  The two tag markers, the two response  *)
(* markers, a newline, a piece of plain text and a whole JSON document are *)
(* one token each, so that str.index(marker) is the first position of the  *)
(* marker token and the offsets 11 and 12 of the code (the lengths of the  *)
(* two markers) are one token here.                                        *)
(***************************************************************************)
EXTENDS Integers, Sequences, FiniteSets, TLC

VARIABLES
    content,    \* process_tool_calls: the local `content`
    pc,         \* process_tool_calls: "loop", "returned" or "raised"; "off" when not running
    input,      \* the argument process_tool_calls was called with
    execLog,    \* the tool names execute_tool was called with, in call order
    toolLog,    \* the tool functions of AITools that were entered, in call order
    last,       \* what the last pass of the while loop did
    conversation_history,   \* ol.py: the global list of turns
    vector_db,  \* db_utils.py: the records of the collection, in insertion order
    cpc,        \* ollama_chat: "idle" (not running), "stream" (in the async for); "off"
    prompt,     \* ollama_chat: the prompt of the exchange in flight
    full_response,  \* ollama_chat: the local accumulator
    response_text,  \* chat_loop: the text received from the generator so far
    retr,       \* the run of retrieve_context of the exchange in flight, or the last call
    addr,       \* the run of add_to_vector_db of the last exchange, or the last call
    exchange,   \* how the last exchange ended, with the state it started from
    recent,     \* the successful exchanges since start: their number, and the last five
    should_exit,    \* ol.py: the global shutdown flag
    lpc,        \* chat_loop: "top", "ask", "for", "tools", "ended"; "off" when not running
    caught,     \* chat_loop: the exception its handler caught in this iteration
    sigint_at   \* where chat_loop was when SIGINT first arrived ("stream": in a stream)

toolVars == <<content, pc, input, execLog, toolLog, last>>
chatVars == <<conversation_history, vector_db, cpc, prompt, full_response, response_text,
              retr, addr, exchange, recent>>
loopVars == <<should_exit, lpc, caught, sigint_at>>
vars == <<toolVars, chatVars, loopVars>>

----------------------------------------------------------------------------
(* Bounds *)

\* A text under scan is made of at most MaxSegs segments.
MaxSegs == 3
\* The scan is followed while the text has at most MaxContentLen tokens.
MaxContentLen == 14
\* A model response has at most MaxResponseLen tokens.
MaxResponseLen == 1
\* In the exchanges followed, vector_db.add succeeds while the collection
\* holds fewer than MaxChatStore records and raises afterwards.
MaxChatStore == 2
\* At most MaxSuccesses exchanges succeed; failed exchanges are not counted.
MaxSuccesses == 6
\* The collection holds at most MaxStore records.
MaxStore == 4

----------------------------------------------------------------------------
(* Program constants *)

\* N_CONTEXTS = int(os.getenv("N_CONTEXTS", "3"))
N_CONTEXTS == 3
\* if len(conversation_history) > 10: conversation_history = conversation_history[-10:]
HistoryWindow == 10

----------------------------------------------------------------------------
(* Tokens *)

StartMarker == "<tool_call>"
EndMarker == "</tool_call>"
RespStart == "<tool_response>"
RespEnd == "</tool_response>"
Newline == "\n"
Plain == "text"

\* str.strip() removes these from both ends of the payload.
Whitespace == {Newline}

\* The asynchronous tool of AITools.
AsyncTools == {"search"}

\* The synchronous tools of AITools.
SyncTools ==
    {"create_folder", "create_file", "write_to_file", "read_file", "list_files",
     "delete_file", "upload_file", "get_weather", "get_news", "translate_text",
     "summarize_text", "analyze_sentiment"}

\* The attributes getattr(AITools, tool_name, None) finds.
AIToolsAttrs == AsyncTools \cup SyncTools

\* The JSON documents a payload may hold, one token each, with what
\* json.loads makes of them: isObject (a dict), hasName / hasArguments (the
\* keys present), name, and args: "ok" (a mapping the tool's signature
\* accepts), "bad" (a mapping it rejects) or "notmapping".
JsonDocs ==
    [d \in {"{search}", "{list_files}", "{read_file}", "{read_file:badargs}",
            "{nosuch}", "{noname}", "[1]"} |->
        CASE d = "{search}" ->
                [isObject |-> TRUE, hasName |-> TRUE, hasArguments |-> TRUE,
                 name |-> "search", args |-> "ok"]
          [] d = "{list_files}" ->
                [isObject |-> TRUE, hasName |-> TRUE, hasArguments |-> TRUE,
                 name |-> "list_files", args |-> "ok"]
          [] d = "{read_file}" ->
                [isObject |-> TRUE, hasName |-> TRUE, hasArguments |-> TRUE,
                 name |-> "read_file", args |-> "ok"]
          [] d = "{read_file:badargs}" ->
                [isObject |-> TRUE, hasName |-> TRUE, hasArguments |-> TRUE,
                 name |-> "read_file", args |-> "bad"]
          [] d = "{nosuch}" ->
                [isObject |-> TRUE, hasName |-> TRUE, hasArguments |-> TRUE,
                 name |-> "nosuch", args |-> "ok"]
          [] d = "{noname}" ->
                [isObject |-> TRUE, hasName |-> FALSE, hasArguments |-> TRUE,
                 name |-> "", args |-> "ok"]
          [] OTHER ->
                [isObject |-> FALSE, hasName |-> FALSE, hasArguments |-> FALSE,
                 name |-> "", args |-> "notmapping"]]

----------------------------------------------------------------------------
(* Sequence helpers: the str operations the code uses *)

\* needle in text
Contains(text, tok) == \E i \in 1..Len(text) : text[i] = tok

\* text.index(tok, from): the first position >= from holding tok; 0 stands
\* for the ValueError("substring not found") str.index raises.
IndexFrom(text, tok, from) ==
    IF \E i \in from..Len(text) : text[i] = tok
    THEN CHOOSE i \in from..Len(text) :
            /\ text[i] = tok
            /\ \A j \in from..(i - 1) : text[j] # tok
    ELSE 0

RECURSIVE LStrip(_)
LStrip(text) ==
    IF text # <<>> /\ Head(text) \in Whitespace THEN LStrip(Tail(text)) ELSE text

RECURSIVE RStrip(_)
RStrip(text) ==
    IF text # <<>> /\ text[Len(text)] \in Whitespace
    THEN RStrip(SubSeq(text, 1, Len(text) - 1))
    ELSE text

\* str.strip()
Strip(text) == RStrip(LStrip(text))

\* The number of tokens tok in text.
Count(text, tok) == Cardinality({i \in 1..Len(text) : text[i] = tok})

----------------------------------------------------------------------------
(* Python values of the tool protocol *)

\* An exception: its class, whether the class is ValueError or a subclass
\* of it, and str(e).
JSONDecodeError ==
    [type |-> "JSONDecodeError", isValueError |-> TRUE, msg |-> "Expecting value"]
SubstringNotFound ==
    [type |-> "ValueError", isValueError |-> TRUE, msg |-> "substring not found"]
TypeErrorNotSubscriptable ==
    [type |-> "TypeError", isValueError |-> FALSE, msg |-> "indices must be integers"]
KeyErrorOf(key) ==
    [type |-> "KeyError", isValueError |-> FALSE, msg |-> key]
TypeErrorNotMapping ==
    [type |-> "TypeError", isValueError |-> FALSE, msg |-> "argument after ** must be a mapping"]
TypeErrorAwaitDict ==
    [type |-> "TypeError", isValueError |-> FALSE,
     msg |-> "object dict can't be used in 'await' expression"]
NoException == [type |-> "none", isValueError |-> FALSE, msg |-> ""]

\* json.loads(tool_call): a payload is a JSON document when it is exactly
\* one document token; anything else (nothing, plain text, a marker, two
\* documents) raises JSONDecodeError.
JsonLoads(payload) ==
    IF Len(payload) = 1 /\ payload[1] \in DOMAIN JsonDocs
    THEN [raised |-> FALSE, value |-> JsonDocs[payload[1]]]
    ELSE [raised |-> TRUE, value |-> JsonDocs["[1]"]]

\* The text a search result contributes to tool_response: the "url" strings
\* of the result items, external text that may itself hold markers.
SearchUrlTexts ==
    {<<Plain>>, <<StartMarker, "{search}", EndMarker>>, <<StartMarker, "{list_files}", EndMarker>>}

\* The dicts a tool returns: success, the key that carries the payload
\* ("files", "results", another key, or "error"), and the payload's text.
SuccessDict(kind, body) == [success |-> TRUE, kind |-> kind, body |-> body]
FailureDict == [success |-> FALSE, kind |-> "error", body |-> <<Plain>>]

\* What a synchronous tool returns when it is entered: its success dict, or
\* the failure dict of its own except clause.
SyncToolReturns(name) ==
    {SuccessDict(IF name = "list_files" THEN "files" ELSE "other", <<Plain>>), FailureDict}

\* What awaiting AITools.search ends with: perform_search returns a dict
\* (results, no results, a failure) or raises what searxng_search does not
\* catch (a result item without 'title' or 'url': KeyError).
SearchAwaitOutcomes ==
    {[raised |-> FALSE, result |-> SuccessDict("results", u)] : u \in SearchUrlTexts}
    \cup {[raised |-> FALSE, result |-> SuccessDict("results", <<>>)],
          [raised |-> FALSE, result |-> FailureDict],
          [raised |-> TRUE, result |-> FailureDict]}

\* execute_tool(tool_name, **kwargs): every way the call can end.
\*   awaitable: the value returned is a coroutine (else a dict)
\*   entered:   the tool function was called and bound its arguments
\*   caught:    an exception of the call was caught by execute_tool
\*   raises:    awaiting the coroutine raises
\*   result:    the dict returned, or the dict the coroutine returns
ExecuteTool(tool_name, args) ==
    IF tool_name \notin AIToolsAttrs
    THEN {[awaitable |-> FALSE, entered |-> FALSE, caught |-> FALSE, raises |-> FALSE,
           result |-> FailureDict]}
    ELSE IF args # "ok"
    THEN {[awaitable |-> FALSE, entered |-> FALSE, caught |-> TRUE, raises |-> FALSE,
           result |-> FailureDict]}
    ELSE IF tool_name \in AsyncTools
    THEN {[awaitable |-> TRUE, entered |-> TRUE, caught |-> FALSE, raises |-> o.raised,
           result |-> o.result] : o \in SearchAwaitOutcomes}
    ELSE {[awaitable |-> FALSE, entered |-> TRUE, caught |-> FALSE, raises |-> FALSE,
           result |-> r] : r \in SyncToolReturns(tool_name)}
         \cup {[awaitable |-> FALSE, entered |-> TRUE, caught |-> TRUE, raises |-> FALSE,
                result |-> FailureDict]}

\* tool_response, as lines 171-200 of ol.py format it.
ToolResponse(tool_name, result) ==
    IF result.success
    THEN IF tool_name = "list_files"
         THEN <<Plain, Newline, Newline>> \o result.body
         ELSE IF tool_name = "search"
         THEN IF result.body # <<>>
              THEN <<Plain, Newline, Newline>> \o result.body \o <<Newline, Plain>>
              ELSE <<Plain>>
         ELSE <<Plain>> \o result.body
    ELSE <<"Error executing">> \o result.body

\* content[:start] + "<tool_response>\n...\n</tool_response>" + content[end + 12:]
Splice(text, s, e, tool_response) ==
    SubSeq(text, 1, s - 1)
        \o <<RespStart, Newline>> \o tool_response \o <<Newline, RespEnd>>
        \o SubSeq(text, e + 1, Len(text))

\* content[:start] + content[end + 12:]
RemoveCall(text, s, e) == SubSeq(text, 1, s - 1) \o SubSeq(text, e + 1, Len(text))

----------------------------------------------------------------------------
(* process_tool_calls *)

NoPass == [outcome |-> "none", start |-> 0, end |-> 0, before |-> <<>>,
           exc |-> NoException, name |-> "", called |-> FALSE, entered |-> FALSE]

\* One run of lines 160-203, the body of the try: the exception it ends
\* with (NoException when it reaches line 203), the content it leaves, the
\* execute_tool call made and the tool function entered, if any.
TryEnds(outcome, exc, text, name, called, entered) ==
    [outcome |-> outcome, exc |-> exc, content |-> text, name |-> name,
     called |-> called, entered |-> entered]

AfterExecute(text, s, e, tool_name, x) ==
    IF ~x.awaitable
    THEN TryEnds(IF tool_name \notin AIToolsAttrs THEN "unknown_tool"
                 ELSE IF ~x.entered THEN "bad_arguments"
                 ELSE IF x.caught THEN "tool_raised" ELSE "tool_returned",
                 TypeErrorAwaitDict, text, tool_name, TRUE, x.entered)
    ELSE IF x.raises
    THEN TryEnds("tool_raised", KeyErrorOf("title"), text, tool_name, TRUE, x.entered)
    ELSE TryEnds("spliced", NoException,
                 Splice(text, s, e, ToolResponse(tool_name, x.result)),
                 tool_name, TRUE, x.entered)

TryBody(text, s, e) ==
    LET tool_call == Strip(SubSeq(text, s + 1, e - 1))
        loaded == JsonLoads(tool_call)
        tool_data == loaded.value
    IN  IF loaded.raised
        THEN {TryEnds("parse_failed", JSONDecodeError, text, "", FALSE, FALSE)}
        ELSE IF ~tool_data.isObject
        THEN {TryEnds("not_invocation", TypeErrorNotSubscriptable, text, "", FALSE, FALSE)}
        ELSE IF ~tool_data.hasName
        THEN {TryEnds("not_invocation", KeyErrorOf("name"), text, "", FALSE, FALSE)}
        ELSE IF ~tool_data.hasArguments
        THEN {TryEnds("not_invocation", KeyErrorOf("arguments"), text, "", FALSE, FALSE)}
        ELSE IF tool_data.args = "notmapping"
        THEN {TryEnds("not_invocation", TypeErrorNotMapping, text, tool_data.name, FALSE, FALSE)}
        ELSE {AfterExecute(text, s, e, tool_data.name, x) :
                x \in ExecuteTool(tool_data.name, tool_data.args)}

\* The except clauses of lines 205-214: TRUE when the loop goes on.
HandlerContinues(exc) ==
    \/ exc = NoException
    \/ exc.isValueError /\ exc.msg = "substring not found"

HandlerContent(exc, r, text, s, e) ==
    IF exc = NoException THEN r.content
    ELSE IF exc.isValueError /\ exc.msg = "substring not found" THEN RemoveCall(text, s, e)
    ELSE text

\* One pass of the while loop of process_tool_calls (lines 154-214).  The
\* two index calls of lines 155-156 are outside the try: a start marker
\* with no end marker after it raises ValueError out of the function.
Pass ==
    /\ pc = "loop"
    /\ Contains(content, StartMarker)
    /\ Len(content) <= MaxContentLen
    /\ LET s == IndexFrom(content, StartMarker, 1)
           e == IndexFrom(content, EndMarker, s)
       IN  IF e = 0
           THEN /\ pc' = "raised"
                /\ last' = [outcome |-> "unterminated", start |-> s, end |-> 0,
                            before |-> content, exc |-> SubstringNotFound, name |-> "",
                            called |-> FALSE, entered |-> FALSE]
                /\ UNCHANGED <<content, execLog, toolLog>>
           ELSE \E r \in TryBody(content, s, e) :
                /\ content' = HandlerContent(r.exc, r, content, s, e)
                /\ pc' = IF HandlerContinues(r.exc) THEN "loop" ELSE "returned"
                /\ execLog' = IF r.called THEN Append(execLog, r.name) ELSE execLog
                /\ toolLog' = IF r.entered THEN Append(toolLog, r.name) ELSE toolLog
                /\ last' = [outcome |-> r.outcome, start |-> s, end |-> e,
                            before |-> content, exc |-> r.exc, name |-> r.name,
                            called |-> r.called, entered |-> r.entered]
    /\ UNCHANGED input

\* The while condition is false: return content (line 216).
Return ==
    /\ pc = "loop"
    /\ ~Contains(content, StartMarker)
    /\ pc' = "returned"
    /\ UNCHANGED <<content, input, execLog, toolLog, last>>

----------------------------------------------------------------------------
(* Embeddings and similarity (db_utils.py) *)

\* get_embedding returns None.
None == <<>>

RECURSIVE Dot(_, _)
Dot(a, b) == IF a = <<>> \/ b = <<>> THEN 0 ELSE Head(a) * Head(b) + Dot(Tail(a), Tail(b))

VecAdd(a, b) == [i \in 1..Len(a) |-> a[i] + b[i]]

\* The embedding service, a deterministic function of the text: the sum of
\* its tokens' vectors.
TokenVector(tok) ==
    CASE tok = "p1" -> <<1, 1>>
      [] tok = "p2" -> <<1, 0>>
      [] tok = Plain -> <<0, 1>>
      [] OTHER -> <<0, 0>>

RECURSIVE EmbeddingOf(_)
EmbeddingOf(text) ==
    IF text = <<>> THEN <<0, 0>> ELSE VecAdd(TokenVector(Head(text)), EmbeddingOf(Tail(text)))

\* What the POST to /api/embeddings can end with: a response with the
\* embedding, or a connection failure, a timeout, an error status
\* (all requests.RequestException), or a response without the field.
EmbeddingReplies(text) ==
    {[kind |-> "ok", embedding |-> EmbeddingOf(text)]}
    \cup {[kind |-> k, embedding |-> None] :
            k \in {"connection_error", "timeout", "http_error", "no_embedding_field"}}

\* get_embedding(text), given the service's reply.
GetEmbedding(reply) ==
    IF reply.kind \in {"connection_error", "timeout", "http_error"} THEN None
    ELSE reply.embedding

\* cosine_similarity(a, b) = dot / (norm(a) * norm(b)) as an exact value:
\* dot over the square root of nn.  With a zero vector numpy divides 0.0 by
\* 0.0 and the float is nan.
\* (A variant that does not divide by the norms.)
CosineSimilarity_Unnormalised(a, b) == [dot |-> Dot(a, b), nn |-> 1]

CosineSimilarity(a, b) == [dot |-> Dot(a, b), nn |-> Dot(a, a) * Dot(b, b)]

IsNaN(x) == x.nn = 0

Sign(n) == IF n < 0 THEN -1 ELSE IF n > 0 THEN 1 ELSE 0

\* x < y on floats: false when either is nan.
FloatLT(x, y) ==
    /\ ~IsNaN(x)
    /\ ~IsNaN(y)
    /\ Sign(x.dot) * x.dot * x.dot * y.nn < Sign(y.dot) * y.dot * y.dot * x.nn

----------------------------------------------------------------------------
(* list.sort(key=similarity, reverse=True), as CPython sorts a short list:  *)
(* reverse, find the leading run, binary insertion of the rest, reverse.   *)

Reverse(s) == [i \in 1..Len(s) |-> s[Len(s) + 1 - i]]

KeyLT(c, d) == FloatLT(c.similarity, d.similarity)

RECURSIVE AscendingRun(_, _)
AscendingRun(s, n) ==
    IF n < Len(s) /\ ~KeyLT(s[n + 1], s[n]) THEN AscendingRun(s, n + 1) ELSE n

RECURSIVE DescendingRun(_, _)
DescendingRun(s, n) ==
    IF n < Len(s) /\ KeyLT(s[n + 1], s[n]) THEN DescendingRun(s, n + 1) ELSE n

RECURSIVE BinarySearch(_, _, _, _)
BinarySearch(s, pivot, l, r) ==
    IF l < r
    THEN LET p == l + ((r - l) \div 2)
         IN  IF KeyLT(pivot, s[p]) THEN BinarySearch(s, pivot, l, p)
             ELSE BinarySearch(s, pivot, p + 1, r)
    ELSE l

RECURSIVE BinarySort(_, _)
BinarySort(s, sorted) ==
    IF sorted >= Len(s) THEN s
    ELSE LET pivot == s[sorted + 1]
             at == BinarySearch(s, pivot, 1, sorted + 1)
             moved == SubSeq(s, 1, at - 1) \o <<pivot>> \o SubSeq(s, at, sorted)
                        \o SubSeq(s, sorted + 2, Len(s))
         IN  BinarySort(moved, sorted + 1)

SortAscending(s) ==
    IF Len(s) < 2 THEN s
    ELSE IF KeyLT(s[2], s[1])
    THEN LET n == DescendingRun(s, 2)
         IN  BinarySort(Reverse(SubSeq(s, 1, n)) \o SubSeq(s, n + 1, Len(s)), n)
    ELSE BinarySort(s, AscendingRun(s, 2))

SortBySimilarityReverse(s) == Reverse(SortAscending(Reverse(s)))

----------------------------------------------------------------------------
(* The vector store and its two callers (db_utils.py) *)

\* A record of the collection: the id, the document's prompt and response,
\* and the stored embedding.
StoreRecord(id, user_text, response, embedding) ==
    [id |-> id, prompt |-> user_text, response |-> response, embedding |-> embedding]

Dist2(a, b) == Dot(a, a) - 2 * Dot(a, b) + Dot(b, b)

\* The answers vector_db.query(query_embeddings=[v], n_results=k) may give:
\* the k records nearest to v by the store's own (squared L2) distance,
\* nearest first, as positions in db; equal distances in any order.
Nearest(db, v, k) ==
    LET m == IF Len(db) < k THEN Len(db) ELSE k
        d == [x \in 1..Len(db) |-> Dist2(v, db[x].embedding)]
    IN  {h \in [1..m -> 1..Len(db)] :
            /\ \A i \in 1..(m - 1) : h[i] # h[i + 1] /\ d[h[i]] <= d[h[i + 1]]
            /\ \A i, j \in 1..m : i < j => h[i] # h[j]
            /\ \A x \in 1..Len(db) :
                    (\A i \in 1..m : h[i] # x) => d[h[m]] <= d[x]}

\* Every way the query can end: the store raises, or answers.
QueryOutcomes(db, v, k) ==
    {[raised |-> TRUE, hits |-> <<>>]}
    \cup {[raised |-> FALSE, hits |-> h] : h \in Nearest(db, v, k)}

\* Lines 112-124 of db_utils.py: one context per hit, in the store's order.
ContextsOf(db, hits, prompt_embedding) ==
    [i \in 1..Len(hits) |->
        [id |-> db[hits[i]].id,
         prompt |-> db[hits[i]].prompt,
         response |-> db[hits[i]].response,
         similarity |-> CosineSimilarity(prompt_embedding, db[hits[i]].embedding)]]

\* contexts[:N_CONTEXTS]
TakeFirst(seq, n) == SubSeq(seq, 1, IF Len(seq) < n THEN Len(seq) ELSE n)

\* The handler of lines 139-142: its second debug_print formats
\* traceback.format_exc(), and db_utils.py does not import traceback, so
\* the handler itself raises NameError before `return []`.
RetrieveHandler ==
    [returned |-> FALSE, raised |-> "NameError", contexts |-> <<>>]

\* (A variant of retrieve_context without the `is None` test of lines
\* 93-95: the query is made with None, the store raises, the handler runs.)
RetrieveContext_NoNoneCheck(db, reply, q) ==
    LET prompt_embedding == GetEmbedding(reply)
    IN  IF prompt_embedding = None \/ q.raised
        THEN [returned |-> RetrieveHandler.returned, raised |-> RetrieveHandler.raised,
              contexts |-> RetrieveHandler.contexts,
              reply |-> reply.kind, queried |-> TRUE, store_error |-> TRUE]
        ELSE [returned |-> TRUE, raised |-> "none",
              contexts |-> TakeFirst(SortBySimilarityReverse(
                                ContextsOf(db, q.hits, prompt_embedding)), N_CONTEXTS),
              reply |-> reply.kind, queried |-> TRUE, store_error |-> FALSE]

\* retrieve_context(prompt), given the embedding reply and the store's
\* answer: what it returns or raises, and whether it queried the store.
\* (reply and store_error repeat the two inputs, for the record of the run.)
RetrieveContext(db, reply, q) ==
    LET prompt_embedding == GetEmbedding(reply)
    IN  IF prompt_embedding = None
        THEN [returned |-> TRUE, raised |-> "none", contexts |-> <<>>,
              reply |-> reply.kind, queried |-> FALSE, store_error |-> FALSE]
        ELSE IF q.raised
        THEN [returned |-> RetrieveHandler.returned, raised |-> RetrieveHandler.raised,
              contexts |-> RetrieveHandler.contexts,
              reply |-> reply.kind, queried |-> TRUE, store_error |-> TRUE]
        ELSE [returned |-> TRUE, raised |-> "none",
              contexts |-> TakeFirst(SortBySimilarityReverse(
                                ContextsOf(db, q.hits, prompt_embedding)), N_CONTEXTS),
              reply |-> reply.kind, queried |-> TRUE, store_error |-> FALSE]

\* All runs of retrieve_context(prompt) on store db.
RetrieveRuns(db, user_text) ==
    UNION {IF GetEmbedding(reply) = None
           THEN {RetrieveContext(db, reply, [raised |-> FALSE, hits |-> <<>>])}
           ELSE {RetrieveContext(db, reply, q) :
                    q \in QueryOutcomes(db, GetEmbedding(reply), N_CONTEXTS)} :
           reply \in EmbeddingReplies(user_text)}

\* uuid.uuid4(): an id no record holds.
FreshId(db) == Len(db) + 1

\* (A variant without the test of lines 65-67: the record is added whatever
\* get_embedding returned.)
AddToVectorDb_NoNoneCheck(db, user_text, response, reply, add_raises) ==
    IF add_raises
    THEN [db |-> db, raised |-> "none", reply |-> reply.kind, store_error |-> TRUE]
    ELSE [db |-> Append(db, StoreRecord(Len(db) + 1, user_text, response,
                                        GetEmbedding(reply))),
          raised |-> "none", reply |-> reply.kind, store_error |-> FALSE]

\* add_to_vector_db(conversation), given the embedding reply and whether
\* vector_db.add raises: the store it leaves, and what it raised.
AddToVectorDb(db, user_text, response, reply, add_raises) ==
    LET embedding == GetEmbedding(reply)
    IN  IF embedding = None
        THEN [db |-> db, raised |-> "none", reply |-> reply.kind, store_error |-> FALSE]
        ELSE IF add_raises
        THEN [db |-> db, raised |-> "none", reply |-> reply.kind, store_error |-> TRUE]
        ELSE [db |-> Append(db, StoreRecord(FreshId(db), user_text, response, embedding)),
              raised |-> "none", reply |-> reply.kind, store_error |-> FALSE]

\* All runs of add_to_vector_db on store db.
AddRuns(db, user_text, response) ==
    {AddToVectorDb(db, user_text, response, reply, add_raises) :
        reply \in EmbeddingReplies(user_text \o <<" ">> \o response),
        add_raises \in BOOLEAN}

----------------------------------------------------------------------------
(* ollama_chat, as chat_loop consumes it (ol.py) *)

\* The user inputs: of the exchanges, and of direct calls of the memory functions.
ChatPrompts == {"p1"}
Prompts == {"p1", "p2"}

\* The fragments the model service streams.
ModelChunks == {<<Plain>>}

\* The text yielded by the except clause of ollama_chat (line 150).
FallbackMessage == <<"I'm sorry, I encountered an error and couldn't process your request.">>

Turn(role, text) == [role |-> role, content |-> text]

NoRetrieve == [returned |-> TRUE, raised |-> "none", contexts |-> <<>>,
               reply |-> "none", queried |-> FALSE, store_error |-> FALSE,
               called |-> FALSE]
NoAdd == [raised |-> "none", reply |-> "none", store_error |-> FALSE, called |-> FALSE,
          before |-> <<>>]
NoExchange == [result |-> "none", history |-> <<>>, db |-> <<>>]

\* The record of a run of retrieve_context.
Called(run) ==
    [returned |-> run.returned, raised |-> run.raised, contexts |-> run.contexts,
     reply |-> run.reply, queried |-> run.queried, store_error |-> run.store_error,
     called |-> TRUE]

\* The record of a run of add_to_vector_db on store db.
Added(run, db) ==
    [raised |-> run.raised, reply |-> run.reply, store_error |-> run.store_error,
     called |-> TRUE, before |-> db]

ChatIdle(at, db) ==
    /\ conversation_history = <<>>
    /\ vector_db = db
    /\ cpc = at
    /\ prompt = <<>>
    /\ full_response = <<>>
    /\ response_text = <<>>
    /\ retr = NoRetrieve
    /\ addr = NoAdd
    /\ exchange = NoExchange
    /\ recent = [n |-> 0, window |-> <<>>]

\* (A variant of the cut that keeps the first ten turns, history[:10].)
TruncateHistory_KeepsFirst(history) ==
    IF Len(history) > HistoryWindow THEN SubSeq(history, 1, HistoryWindow) ELSE history

\* Lines 140-144: the two appends and the cut to the last ten turns.
TruncateHistory(history) ==
    IF Len(history) > HistoryWindow
    THEN SubSeq(history, Len(history) - HistoryWindow + 1, Len(history))
    ELSE history

AppendExchange(history, user_text, assistant_text) ==
    TruncateHistory(Append(Append(history, Turn("user", user_text)),
                           Turn("assistant", assistant_text)))

\* (A variant of the except clause that yields nothing.)
ReceivedOnFailure_NoYield(received) == received

\* (A variant in which the caller is handed the fallback message in place of
\* what it had received.)
ReceivedOnFailure_FallbackOnly(received) == FallbackMessage

\* What the caller holds after the except clause of lines 146-150 has
\* yielded: the fragments already received, then the fallback message.
ReceivedOnFailure(received) == received \o FallbackMessage

\* The most recent k elements of a sequence.
LastK(seq, k) == IF Len(seq) > k THEN SubSeq(seq, Len(seq) - k + 1, Len(seq)) ELSE seq

\* chat_loop asks for a prompt and starts ollama_chat: line 74 runs
\* retrieve_context before the try.  An exception of retrieve_context
\* leaves the generator and ends the exchange in chat_loop's handler.
StartExchange ==
    /\ cpc = "idle"
    /\ \E p \in ChatPrompts :
        \E run \in RetrieveRuns(vector_db, <<p>>) :
            /\ retr' = Called(run)
            /\ prompt' = <<p>>
            /\ IF run.returned
               THEN /\ cpc' = "stream"
                    /\ exchange' = [result |-> "running", history |-> conversation_history,
                                    db |-> vector_db]
               ELSE /\ cpc' = "idle"
                    /\ exchange' = [result |-> "raised", history |-> conversation_history,
                                    db |-> vector_db]
    /\ full_response' = <<>>
    /\ response_text' = <<>>
    /\ addr' = NoAdd
    /\ UNCHANGED <<conversation_history, vector_db, recent>>

\* One fragment arrives (lines 127-131): accumulated, and yielded to
\* chat_loop, which appends it to response_text.
StreamChunkOf(chunks, maxlen) ==
    /\ cpc = "stream"
    /\ \E c \in chunks :
        /\ Len(full_response) + Len(c) <= maxlen
        /\ full_response' = full_response \o c
        /\ response_text' = response_text \o c
    /\ UNCHANGED <<conversation_history, vector_db, cpc, prompt, retr, addr, exchange,
                   recent>>

StreamChunk == StreamChunkOf(ModelChunks, MaxResponseLen)

\* llm.astream raises, at the call or between fragments: the except clause
\* yields the fallback message and the generator ends.
StreamRaises ==
    /\ cpc = "stream"
    /\ response_text' = ReceivedOnFailure(response_text)
    /\ exchange' = [exchange EXCEPT !.result = "failed"]
    /\ cpc' = "idle"
    /\ retr' = NoRetrieve
    /\ UNCHANGED <<conversation_history, vector_db, prompt, full_response, addr, recent>>

\* The stream ends: add_to_vector_db, the two appends, the cut (lines 135-144).
StreamEnds ==
    /\ cpc = "stream"
    /\ recent.n < MaxSuccesses
    /\ \E run \in AddRuns(vector_db, prompt, full_response) :
        /\ Len(run.db) <= MaxChatStore
        /\ vector_db' = run.db
        /\ addr' = Added(run, vector_db)
    /\ conversation_history' = AppendExchange(conversation_history, prompt, full_response)
    /\ recent' = [n |-> recent.n + 1,
                  window |-> LastK(Append(recent.window,
                                          [prompt |-> prompt, response |-> full_response]), 5)]
    /\ exchange' = [exchange EXCEPT !.result = "ok"]
    /\ cpc' = "idle"
    /\ retr' = NoRetrieve
    /\ UNCHANGED <<prompt, full_response, response_text>>

\* chat_loop is not running.
LoopOff ==
    /\ should_exit = FALSE
    /\ lpc = "off"
    /\ caught = "none"
    /\ sigint_at = "none"

ToolIdle ==
    /\ input = <<>>
    /\ content = <<>>
    /\ pc = "off"
    /\ execLog = <<>>
    /\ toolLog = <<>>
    /\ last = NoPass

InitChat == ToolIdle /\ ChatIdle("idle", <<>>) /\ LoopOff

NextChat ==
    \/ StartExchange /\ UNCHANGED <<toolVars, loopVars>>
    \/ StreamChunk /\ UNCHANGED <<toolVars, loopVars>>
    \/ StreamRaises /\ UNCHANGED <<toolVars, loopVars>>
    \/ StreamEnds /\ UNCHANGED <<toolVars, loopVars>>

SpecChat == InitChat /\ [][NextChat]_vars

----------------------------------------------------------------------------
(* The memory functions called on a collection that earlier sessions filled *)

\* The embeddings of the records found at start.
StoredVectors == {<<0, 0>>, <<1, 0>>, <<1, 1>>, <<2, 3>>, <<-1, 0>>}

RECURSIVE StoresOf(_)
StoresOf(n) ==
    IF n = 0 THEN {<<>>}
    ELSE LET smaller == StoresOf(n - 1)
         IN  smaller \cup
             {Append(db, StoreRecord(Len(db) + 1, <<"old">>, <<Plain>>, v)) :
                db \in {d \in smaller : Len(d) = n - 1}, v \in StoredVectors}

\* retrieve_context(prompt) is called.
CallRetrieve ==
    /\ cpc = "off"
    /\ pc = "off"
    /\ \E p \in Prompts :
        \E run \in RetrieveRuns(vector_db, <<p>>) :
            /\ retr' = Called(run)
            /\ prompt' = <<p>>
    /\ full_response' = <<>>
    /\ addr' = NoAdd
    /\ UNCHANGED <<conversation_history, vector_db, cpc, response_text, exchange, recent>>

\* add_to_vector_db({"prompt": ..., "response": ...}) is called.
CallAddOf(prompts, responses) ==
    /\ cpc = "off"
    /\ pc = "off"
    /\ Len(vector_db) < MaxStore
    /\ \E p \in prompts, c \in responses :
        \E run \in AddRuns(vector_db, <<p>>, c) :
            /\ vector_db' = run.db
            /\ addr' = Added(run, vector_db)
            /\ prompt' = <<p>>
            /\ full_response' = c
    /\ retr' = NoRetrieve
    /\ UNCHANGED <<conversation_history, cpc, response_text, exchange, recent>>

CallAdd == CallAddOf(Prompts, ModelChunks)

InitMemory ==
    /\ ToolIdle
    /\ \E db \in StoresOf(MaxStore) : ChatIdle("off", db)
    /\ LoopOff

NextMemory ==
    \/ CallRetrieve /\ UNCHANGED <<toolVars, loopVars>>
    \/ CallAdd /\ UNCHANGED <<toolVars, loopVars>>

SpecMemory == InitMemory /\ [][NextMemory]_vars

----------------------------------------------------------------------------
(* A record is persisted and then looked up by its own text *)

\* The collection holds at most MaxRoundTripStore records before the add.
MaxRoundTripStore == 3

\* The embeddings of the records found at start.
RoundTripVectors == {<<0, 0>>, <<1, 0>>, <<1, 1>>}

\* The prompts and responses persisted: with TokenVector, their joined
\* texts embed to (1,1), (1,0), (0,1) and (0,0).
RoundTripPrompts == {"p2", "p0"}
RoundTripResponses == {<<Plain>>, <<>>}

RECURSIVE StoresOver(_, _)
StoresOver(vectors, n) ==
    IF n = 0 THEN {<<>>}
    ELSE LET smaller == StoresOver(vectors, n - 1)
         IN  smaller \cup
             {Append(db, StoreRecord(Len(db) + 1, <<"old">>, <<Plain>>, v)) :
                db \in {d \in smaller : Len(d) = n - 1}, v \in vectors}

\* add_to_vector_db({"prompt": P, "response": R}) is called.
Persist ==
    /\ ~addr.called
    /\ CallAddOf(RoundTripPrompts, RoundTripResponses)

\* retrieve_context(P + " " + R) is called after it.
RetrieveStored ==
    /\ cpc = "off"
    /\ pc = "off"
    /\ addr.called
    /\ ~retr.called
    /\ \E run \in RetrieveRuns(vector_db, prompt \o <<" ">> \o full_response) :
            retr' = Called(run)
    /\ UNCHANGED <<conversation_history, vector_db, cpc, prompt, full_response,
                   response_text, addr, exchange, recent>>

InitRoundTrip ==
    /\ ToolIdle
    /\ \E db \in StoresOver(RoundTripVectors, MaxRoundTripStore) : ChatIdle("off", db)
    /\ LoopOff

NextRoundTrip ==
    \/ Persist /\ UNCHANGED <<toolVars, loopVars>>
    \/ RetrieveStored /\ UNCHANGED <<toolVars, loopVars>>

SpecRoundTrip == InitRoundTrip /\ [][NextRoundTrip]_vars

----------------------------------------------------------------------------
(* The texts process_tool_calls is called with *)

\* A complete tag around a payload.
Tag(payload) == <<StartMarker>> \o payload \o <<EndMarker>>

Segments ==
    {<<Plain>>, <<StartMarker>>, <<EndMarker>>}
    \cup {Tag(<<d>>) : d \in DOMAIN JsonDocs}
    \cup {Tag(<<Newline, "{search}", Newline>>), Tag(<<Plain>>), Tag(<<>>)}

RECURSIVE TextsOf(_)
TextsOf(n) ==
    IF n = 0 THEN {<<>>}
    ELSE LET shorter == TextsOf(n - 1)
         IN  shorter \cup {t \o g : t \in shorter, g \in Segments}

InitTool ==
    /\ input \in TextsOf(MaxSegs)
    /\ content = input
    /\ pc = "loop"
    /\ execLog = <<>>
    /\ toolLog = <<>>
    /\ last = NoPass
    /\ ChatIdle("off", <<>>)
    /\ LoopOff

NextTool ==
    \/ Pass /\ UNCHANGED <<chatVars, loopVars>>
    \/ Return /\ UNCHANGED <<chatVars, loopVars>>

SpecTool == InitTool /\ [][NextTool]_vars

----------------------------------------------------------------------------
(* chat_loop (ol.py) *)

\* A session of the loop is followed until MaxLoopSuccesses exchanges succeeded.
MaxLoopSuccesses == 1
\* The model streams at most MaxLoopResponseLen tokens in an exchange of the loop.
MaxLoopResponseLen == 3

\* The fragments the model streams in a session: a complete call of the
\* asynchronous tool, one of a synchronous tool, text with an opening marker.
LoopChunks == {Tag(<<"{search}">>), Tag(<<"{list_files}">>), <<Plain, StartMarker>>}

\* (A variant of the loop that does not test the flag: while True.)
WhileCondition_Ignored(flag) == TRUE

\* while not should_exit (line 244).
WhileCondition(flag) == ~flag

\* (A variant of the handler that catches ValueError only.)
IsException_ValueErrorOnly(type) == type = "ValueError"

\* `except Exception` (line 269): the exception types it catches.
IsException(type) == type \in {"NameError", "ValueError", "TypeError", "KeyError"}

\* Where an exception raised inside the try of chat_loop leaves the loop:
\* caught, the while statement is reached again; else it leaves chat_loop.
AfterRaise(type) == IF IsException(type) THEN "top" ELSE "crashed"

\* (A variant that leaves the async for while the generator still runs.)
GeneratorExhausted_Always(c) == TRUE

\* The async for of line 256 ends when the generator is exhausted.
GeneratorExhausted(c) == c = "idle"

\* The locals of process_tool_calls after the call is over.
ToolOff ==
    /\ input' = <<>>
    /\ content' = <<>>
    /\ pc' = "off"
    /\ execLog' = <<>>
    /\ toolLog' = <<>>
    /\ last' = NoPass

\* The while statement (line 244) tests the flag.
LoopTop ==
    /\ lpc = "top"
    /\ lpc' = IF WhileCondition(should_exit) THEN "ask" ELSE "ended"
    /\ caught' = "none"
    /\ UNCHANGED <<should_exit, sigint_at, toolVars, chatVars>>

\* Prompt.ask returns an exit word: break (lines 246-249).
AskExit ==
    /\ lpc = "ask"
    /\ lpc' = "ended"
    /\ UNCHANGED <<should_exit, caught, sigint_at, toolVars, chatVars>>

\* Prompt.ask returns a prompt and the async for asks the generator for its
\* first item (lines 246-256): ollama_chat runs up to its stream, and an
\* exception of retrieve_context reaches the handler of line 269.
AskPrompt ==
    /\ lpc = "ask"
    /\ StartExchange
    /\ IF exchange'.result = "raised"
       THEN /\ caught' = retr'.raised
            /\ lpc' = AfterRaise(retr'.raised)
       ELSE /\ caught' = caught
            /\ lpc' = "for"
    /\ UNCHANGED <<should_exit, sigint_at, toolVars>>

\* The body of the async for (lines 256-258), once per item of the generator.
LoopStreamChunk ==
    /\ lpc = "for"
    /\ StreamChunkOf(LoopChunks, MaxLoopResponseLen)
    /\ UNCHANGED <<toolVars, loopVars>>

LoopStreamRaises ==
    /\ lpc = "for"
    /\ StreamRaises
    /\ UNCHANGED <<toolVars, loopVars>>

LoopStreamEnds ==
    /\ lpc = "for"
    /\ recent.n < MaxLoopSuccesses
    /\ StreamEnds
    /\ UNCHANGED <<toolVars, loopVars>>

\* content = response_text.plain; process_tool_calls(content) (lines 261-262).
StartProtocol ==
    /\ lpc = "for"
    /\ GeneratorExhausted(cpc)
    /\ input' = response_text
    /\ content' = response_text
    /\ pc' = "loop"
    /\ execLog' = <<>>
    /\ toolLog' = <<>>
    /\ last' = NoPass
    /\ lpc' = "tools"
    /\ UNCHANGED <<should_exit, caught, sigint_at, chatVars>>

LoopPass ==
    /\ lpc = "tools"
    /\ Pass
    /\ UNCHANGED <<chatVars, loopVars>>

LoopReturn ==
    /\ lpc = "tools"
    /\ Return
    /\ UNCHANGED <<chatVars, loopVars>>

\* process_tool_calls returned: the processed text is displayed (lines 264-268).
ProtocolReturned ==
    /\ lpc = "tools"
    /\ pc = "returned"
    /\ ToolOff
    /\ lpc' = "top"
    /\ UNCHANGED <<should_exit, caught, sigint_at, chatVars>>

\* process_tool_calls raised: the handler of lines 269-272.
ProtocolRaised ==
    /\ lpc = "tools"
    /\ pc = "raised"
    /\ ToolOff
    /\ caught' = last.exc.type
    /\ lpc' = AfterRaise(last.exc.type)
    /\ UNCHANGED <<should_exit, sigint_at, chatVars>>

\* SIGINT: signal_handler (lines 46-49) sets the flag, whatever the loop is doing.
Interrupt ==
    /\ lpc \in {"top", "ask", "for", "tools"}
    /\ should_exit' = TRUE
    /\ sigint_at' = IF should_exit THEN sigint_at
                    ELSE IF cpc = "stream" THEN "stream" ELSE lpc
    /\ UNCHANGED <<lpc, caught, toolVars, chatVars>>

InitLoop ==
    /\ ToolIdle
    /\ ChatIdle("idle", <<>>)
    /\ should_exit = FALSE
    /\ lpc = "top"
    /\ caught = "none"
    /\ sigint_at = "none"

NextLoop ==
    \/ LoopTop
    \/ AskExit
    \/ AskPrompt
    \/ LoopStreamChunk
    \/ LoopStreamRaises
    \/ LoopStreamEnds
    \/ StartProtocol
    \/ LoopPass
    \/ LoopReturn
    \/ ProtocolReturned
    \/ ProtocolRaised
    \/ Interrupt

SpecLoop == InitLoop /\ [][NextLoop]_vars

----------------------------------------------------------------------------
(* Claims about the exchange and the memory *)

Min(a, b) == IF a < b THEN a ELSE b

\* The turns of a sequence of exchanges: user, assistant, user, ...
RECURSIVE TurnsOf(_)
TurnsOf(window) ==
    IF window = <<>> THEN <<>>
    ELSE <<Turn("user", Head(window).prompt), Turn("assistant", Head(window).response)>>
            \o TurnsOf(Tail(window))

\* C3: at every moment conversation_history has an even length of at most
\* 10, alternates user and assistant turns, and is exactly the turns of the
\* most recent min(n, 5) successful exchanges, oldest first.
C3_HistoryWindow ==
    /\ Len(conversation_history) % 2 = 0
    /\ Len(conversation_history) <= 10
    /\ \A i \in 1..Len(conversation_history) :
            conversation_history[i].role = IF i % 2 = 1 THEN "user" ELSE "assistant"
    /\ Len(recent.window) = Min(recent.n, 5)
    /\ conversation_history = TurnsOf(recent.window)

\* Six exchanges succeeded and a later one failed: the oldest is gone.
C3_Witness ==
    /\ recent.n = 6
    /\ exchange.result = "failed"
    /\ Len(conversation_history) = 10

\* C4 as stated: after an exchange whose model call failed, the caller holds
\* the fallback message and nothing else, and history and store are those
\* the exchange started from.
C4_FallbackOnly ==
    exchange.result = "failed" =>
        /\ response_text = FallbackMessage
        /\ conversation_history = exchange.history
        /\ vector_db = exchange.db

\* C4 amended: after an exchange whose model call failed, the caller holds
\* the fragments the model delivered before the failure followed by the
\* fallback message, and history and store are those the exchange started
\* from.
C4_FallbackAfterFragments ==
    exchange.result = "failed" =>
        /\ response_text = full_response \o FallbackMessage
        /\ conversation_history = exchange.history
        /\ vector_db = exchange.db

\* A model call failed after a fragment, with history and store not empty.
C4_Witness ==
    /\ exchange.result = "failed"
    /\ full_response # <<>>
    /\ conversation_history # <<>>
    /\ vector_db # <<>>

\* C5: a store error in retrieve_context or in add_to_vector_db stays
\* inside the function: the query returns an empty result, the add changes
\* nothing, and no exchange ends with an exception out of ollama_chat.
C5_StoreErrorsCaught ==
    /\ (retr.called /\ retr.store_error) =>
            retr.returned /\ retr.raised = "none" /\ retr.contexts = <<>>
    /\ (addr.called /\ addr.store_error) =>
            addr.raised = "none" /\ vector_db = addr.before
    /\ exchange.result # "raised"

\* C6: when the embedding request fails, retrieve_context returns an empty
\* sequence without querying the store, and raises nothing.
C6_EmbeddingFailureEmpty ==
    (retr.called /\ retr.reply # "ok") =>
        /\ retr.returned
        /\ retr.raised = "none"
        /\ retr.contexts = <<>>
        /\ ~retr.queried

\* The embedding request failed while the store held records.
C6_Witness ==
    /\ retr.called
    /\ retr.reply \in {"connection_error", "timeout", "http_error", "no_embedding_field"}
    /\ retr.returned
    /\ vector_db # <<>>

\* C7: what retrieve_context returns has at most N_CONTEXTS items, and no
\* item has a greater similarity than an item before it.
C7_SortedTopN ==
    (retr.called /\ retr.returned) =>
        /\ Len(retr.contexts) <= N_CONTEXTS
        /\ \A i, j \in 1..Len(retr.contexts) :
                i < j => ~FloatLT(retr.contexts[i].similarity, retr.contexts[j].similarity)

----------------------------------------------------------------------------
(* Claims about process_tool_calls *)

\* The payload of a well-formed tag: an object with a name of the registry
\* and an arguments mapping the tool accepts.
IsInvocation(payload) ==
    LET loaded == JsonLoads(Strip(payload))
    IN  /\ ~loaded.raised
        /\ loaded.value.isObject
        /\ loaded.value.hasName
        /\ loaded.value.hasArguments
        /\ loaded.value.name \in AIToolsAttrs
        /\ loaded.value.args = "ok"

\* The text is plain text and well-formed, non-overlapping tags only.
RECURSIVE WellFormed(_)
WellFormed(text) ==
    IF text = <<>> THEN TRUE
    ELSE IF Head(text) \in {Plain, Newline} THEN WellFormed(Tail(text))
    ELSE IF Head(text) = StartMarker
    THEN LET e == IndexFrom(text, EndMarker, 1)
         IN  /\ e # 0
             /\ IsInvocation(SubSeq(text, 2, e - 1))
             /\ WellFormed(SubSeq(text, e + 1, Len(text)))
    ELSE FALSE

\* The tool names of the tags of a well-formed text, left to right.
RECURSIVE TagNames(_)
TagNames(text) ==
    IF text = <<>> THEN <<>>
    ELSE IF Head(text) = StartMarker
    THEN LET e == IndexFrom(text, EndMarker, 1)
         IN  <<JsonLoads(Strip(SubSeq(text, 2, e - 1))).value.name>>
                \o TagNames(SubSeq(text, e + 1, Len(text)))
    ELSE TagNames(Tail(text))

Finished == pc \in {"returned", "raised"}

\* C1: for a text of k >= 1 well-formed, non-overlapping tags,
\* process_tool_calls returns after exactly k execute_tool calls, made in
\* the textual order of the tags, and the text returned holds k
\* <tool_response> blocks and neither tag marker, whatever the tools are.
C1_KTagsKInvocations ==
    (Finished /\ WellFormed(input) /\ TagNames(input) # <<>>) =>
        /\ pc = "returned"
        /\ execLog = TagNames(input)
        /\ Count(content, RespStart) = Len(TagNames(input))
        /\ Count(content, RespEnd) = Len(TagNames(input))
        /\ ~Contains(content, StartMarker)
        /\ ~Contains(content, EndMarker)

\* A start marker with no end marker after it.
HasUnterminated(text) ==
    \E i \in 1..Len(text) :
        text[i] = StartMarker /\ IndexFrom(text, EndMarker, i) = 0

\* The segment from the first unterminated start marker to the end.
UnterminatedSegment(text) ==
    LET u == CHOOSE i \in 1..Len(text) :
                /\ text[i] = StartMarker /\ IndexFrom(text, EndMarker, i) = 0
                /\ \A j \in 1..(i - 1) :
                     ~(text[j] = StartMarker /\ IndexFrom(text, EndMarker, j) = 0)
    IN  SubSeq(text, u, Len(text))

EndsWith(text, suffix) ==
    /\ Len(suffix) <= Len(text)
    /\ SubSeq(text, Len(text) - Len(suffix) + 1, Len(text)) = suffix

\* C2: on a text with a start marker that no end marker follows,
\* process_tool_calls ends by returning (it raises nothing), and the text
\* returned ends with the unterminated segment, unmodified.
C2_UnterminatedReturns ==
    (Finished /\ HasUnterminated(input)) =>
        /\ pc = "returned"
        /\ EndsWith(content, UnterminatedSegment(input))

\* C8: a pass over a payload that does not parse as an invocation object
\* calls no tool, removes the two markers of the tag and nothing else, and
\* leaves the loop running.
C8_MalformedStripped ==
    last.outcome \in {"parse_failed", "not_invocation"} =>
        /\ ~last.called
        /\ pc = "loop"
        /\ content = RemoveCall(last.before, last.start, last.end)

\* C9: a pass over a well-formed call of a tool that is not in the registry
\* enters no tool function, replaces the tag by a <tool_response> block
\* holding the synthesized error, and leaves the loop running.
C9_UnknownToolInline ==
    last.outcome = "unknown_tool" =>
        /\ ~last.entered
        /\ pc = "loop"
        /\ content = Splice(last.before, last.start, last.end,
                            ToolResponse(last.name, FailureDict))

\* C10: a pass in which the tool raised replaces the tag by an inline error
\* block and leaves the loop running.
C10_ToolExceptionInline ==
    last.outcome = "tool_raised" =>
        /\ pc = "loop"
        /\ content = Splice(last.before, last.start, last.end,
                            ToolResponse(last.name, FailureDict))

----------------------------------------------------------------------------
(* Claims about chat_loop *)

\* C11: no error of an exchange leaves chat_loop.  The loop never reaches
\* the position after an uncaught exception; a step in which its handler
\* catches an exception leads to the while statement; and the loop ends
\* only from the prompt (an exit word) or from the while statement with
\* the flag set.
C11_ErrorsContained ==
    [][/\ lpc' # "crashed"
       /\ (caught' # "none" /\ caught = "none" => lpc' = "top")
       /\ (lpc' = "ended" /\ lpc # "ended"
            => lpc = "ask" \/ (lpc = "top" /\ should_exit))]_vars

\* retrieve_context raised in an exchange, and the loop asks for the next turn.
C11_Witness ==
    /\ lpc = "ask"
    /\ exchange.result = "raised"
    /\ retr.raised = "NameError"

\* C12: in a successful exchange, once the tool protocol has returned, the
\* assistant turn appended to conversation_history and the response of the
\* record persisted by the exchange are the text the protocol returned.
C12_FinalTextRecorded ==
    (lpc = "tools" /\ pc = "returned" /\ exchange.result = "ok") =>
        /\ conversation_history[Len(conversation_history)] = Turn("assistant", content)
        /\ (Len(vector_db) > Len(exchange.db)
                => vector_db[Len(vector_db)].response = content)

\* The operations waited for: the prompt, the model stream, the tool protocol.
InFlight ==
    (IF lpc = "ask" THEN {"prompt"} ELSE {})
    \cup (IF cpc = "stream" THEN {"model stream"} ELSE {})
    \cup (IF pc = "loop" THEN {"tool protocol"} ELSE {})

\* C13: at most one of the prompt, the model stream and the tool protocol
\* is in flight; the tool protocol runs only after the stream of its
\* exchange has ended (completely or by a failure), and at the while
\* statement and at the prompt no stream and no tool protocol is running.
C13_OneInFlight ==
    /\ Cardinality(InFlight) <= 1
    /\ (pc = "loop" => cpc = "idle" /\ exchange.result \in {"ok", "failed"})
    /\ (lpc \in {"top", "ask"} => cpc = "idle" /\ pc = "off")

\* The protocol runs after a complete stream, a tool executed, more to scan.
C13_Witness ==
    /\ lpc = "tools"
    /\ pc = "loop"
    /\ exchange.result = "ok"
    /\ execLog # <<>>

\* C14: the flag is never cleared; the step that sets it changes nothing
\* else (the exchange in flight goes on); with the flag set the while
\* statement does not lead to the prompt; and after an interrupt that
\* arrived during an exchange or at the while statement the loop is
\* never at the prompt again.
C14_InterruptOnlySetsFlag ==
    /\ [](should_exit /\ sigint_at \in {"top", "for", "stream", "tools"} => lpc # "ask")
    /\ [][/\ (should_exit => should_exit')
          /\ (should_exit' # should_exit => UNCHANGED <<toolVars, chatVars, lpc, caught>>)
          /\ (lpc' = "ask" /\ lpc # "ask" => ~should_exit)]_vars

\* SIGINT arrived during the stream; the exchange succeeded, history and
\* store hold it, and the loop has ended.
C14_Witness ==
    /\ sigint_at = "stream"
    /\ lpc = "ended"
    /\ exchange.result = "ok"
    /\ Len(conversation_history) = Len(exchange.history) + 2
    /\ Len(vector_db) = Len(exchange.db) + 1

\* The first tag of the text is a complete call of a registered tool.
FirstTagIsInvocation(text) ==
    LET st == IndexFrom(text, StartMarker, 1)
    IN  /\ st # 0
        /\ IndexFrom(text, EndMarker, st) # 0
        /\ IsInvocation(SubSeq(text, st + 1, IndexFrom(text, EndMarker, st) - 1))

----------------------------------------------------------------------------
(* More claims about the memory *)

\* The record add_to_vector_db stored in its last call.
RecordStored == addr.called /\ Len(vector_db) = Len(addr.before) + 1
StoredRecord == vector_db[Len(vector_db)]

\* The lookup that followed had its embedding and its store query answered.
LookedUp == retr.called /\ retr.reply = "ok" /\ ~retr.store_error

\* The similarity is 1.0.
IsOne(x) == x.nn # 0 /\ x.dot > 0 /\ x.dot * x.dot = x.nn

\* The result holds the stored record with similarity 1.0, and no item of
\* the result has a greater similarity.
ReturnsStoredRecord ==
    /\ retr.returned
    /\ \E i \in 1..Len(retr.contexts) :
        /\ retr.contexts[i].id = StoredRecord.id
        /\ retr.contexts[i].prompt = StoredRecord.prompt
        /\ retr.contexts[i].response = StoredRecord.response
        /\ IsOne(retr.contexts[i].similarity)
        /\ \A j \in 1..Len(retr.contexts) :
                ~FloatLT(retr.contexts[i].similarity, retr.contexts[j].similarity)

\* C15 as stated: after add_to_vector_db has stored the record of P and R,
\* retrieve_context(P + " " + R) returns that record with similarity 1.0,
\* the greatest of the result, whatever else the store holds.
C15_RoundTrip ==
    (RecordStored /\ LookedUp) => ReturnsStoredRecord

\* The other records of the store with the embedding of the stored record.
SameEmbedding ==
    {x \in 1..(Len(vector_db) - 1) : vector_db[x].embedding = StoredRecord.embedding}

\* C15 amended: the same, when the embedding of P + " " + R is not the zero
\* vector and fewer than N_CONTEXTS other records have that embedding.
C15_RoundTripDistinct ==
    (/\ RecordStored
     /\ LookedUp
     /\ Dot(StoredRecord.embedding, StoredRecord.embedding) # 0
     /\ Cardinality(SameEmbedding) < N_CONTEXTS) => ReturnsStoredRecord

\* The record was stored beside three others, two of them with its
\* embedding, and the lookup returned N_CONTEXTS items.
C15_Witness ==
    /\ RecordStored
    /\ LookedUp
    /\ Len(vector_db) = 4
    /\ Dot(StoredRecord.embedding, StoredRecord.embedding) # 0
    /\ Cardinality(SameEmbedding) = 2
    /\ Len(retr.contexts) = N_CONTEXTS

\* C19: when the embedding request of add_to_vector_db fails in an exchange
\* whose stream ended, the function raises nothing, the store is the one
\* the exchange started from, and the exchange is appended to
\* conversation_history.
C19_PersistEmbeddingFailure ==
    (exchange.result = "ok" /\ addr.called /\ addr.reply # "ok") =>
        /\ addr.raised = "none"
        /\ vector_db = addr.before
        /\ vector_db = exchange.db
        /\ conversation_history = AppendExchange(exchange.history, prompt, full_response)

\* The embedding failed in the first successful exchange: history holds an
\* exchange, the store holds none.
C19_Witness ==
    /\ exchange.result = "ok"
    /\ addr.called
    /\ addr.reply \in {"connection_error", "timeout", "http_error", "no_embedding_field"}
    /\ Len(conversation_history) = 2
    /\ vector_db = <<>>

----------------------------------------------------------------------------
(* More claims about process_tool_calls *)

\* The passes of the while loop made so far: a pass calls execute_tool, or
\* is the last one (the payload did not parse, the tag was unterminated).
Passes ==
    Len(execLog)
        + (IF last.outcome \in {"parse_failed", "not_invocation", "unterminated"}
           THEN 1 ELSE 0)

\* C16: process_tool_calls makes at most as many passes as the text it was
\* called with has start markers, whatever the tools return.
C16_PassesBounded ==
    pc # "off" => Passes <= Count(input, StartMarker)

\* Position i of the text is inside a <tool_response> block.
InsideResponse(text, i) ==
    \E j \in 1..(i - 1) :
        /\ text[j] = RespStart
        /\ \A k \in (j + 1)..(i - 1) : text[k] # RespEnd

\* C17: no pass scans a tag that starts inside a <tool_response> block
\* inserted by an earlier pass.
C17_NoRescan ==
    last.outcome # "none" => ~InsideResponse(last.before, last.start)


====
